---- MODULE Spec2Model ----
(***************************************************************************)
(* Model of go-mvtinfo (src/main.go): main enumerates a tile range, starts *)
(* one fetch goroutine per coordinate, and a single reducer goroutine      *)
(* folds the tileInfo values it receives over the unbuffered channel ch    *)
(* into running min / max / total statistics, then prints the report.      *)
(*                                                                         *)
(* Spec        the whole program: main, the fetch goroutines, the reducer. *)
(* SpecReduce  the reducer goroutine alone, fed an arbitrary sequence of   *)
(*             tileInfo values over ch by a feeder that then closes ch.    *)
(***************************************************************************)
EXTENDS Integers, Sequences, FiniteSets, TLC

(* ------------------------------ bounds --------------------------------- *)
\* largest number of tiles in the range returned by tile.Range(z)
MaxTiles == 3
\* largest number of tileInfo values the feeder of SpecReduce sends
MaxFeed == 3

\* math.MaxUint64, scaled to the model checker's integer range.  Every value
\* the model adds stays far below it, as byte and feature counts stay far
\* below 2^64 in the program.
MaxUint64 == 2147483647

(* ------------------------------ values --------------------------------- *)
\* layer names are byte strings; Go compares them bytewise
roads == <<114, 111, 97, 100, 115>>
water == <<119, 97, 116, 101, 114>>
road == <<114, 111, 97, 100>>

\* layerInfo{Name, Count}
LI(n, c) == [Name |-> n, Count |-> c]

\* what one successful HTTP fetch yields: the length of the body read and the
\* layers mvt.Unmarshal decodes from it (name and number of features each)
Resp(size, layers) == [Size |-> size, Layers |-> layers]

\* responses the server of Spec can give
Responses ==
  { Resp(0, <<>>),
    Resp(1, <<LI(roads, 1)>>),
    Resp(1, <<LI(roads, 0), LI(roads, 1)>>) }

\* responses the feeder of SpecReduce builds its tileInfo values from
FeedResponses ==
  { Resp(100, <<LI(roads, 5)>>),
    Resp(300, <<LI(roads, 2)>>),
    Resp(200, <<LI(roads, 7), LI(water, 3)>>),
    Resp(100, <<LI(roads, 2), LI(road, 2), LI(roads, 2)>>),
    Resp(0, <<>>) }

\* coordinates the feeder of SpecReduce uses
FeedCoords == {<<0, 0>>, <<1, 0>>, <<0, 1>>, <<1, 1>>}

\* uint64 addition
AddU64(a, b) == IF a > MaxUint64 - b THEN a - (MaxUint64 - b) - 1 ELSE a + b

(* ------------------------------ ranges --------------------------------- *)
\* the min corners of the ranges of the model (a range need not hold (0,0))
Origins == {<<0, 0>>, <<1, 0>>, <<0, 1>>, <<1, 1>>}

\* min, max := tile.Range(z): an inclusive, non-empty rectangle
Ranges ==
  { r \in [minX : 0..1, maxX : 0..MaxTiles, minY : 0..1, maxY : 0..MaxTiles] :
      /\ <<r.minX, r.minY>> \in Origins
      /\ r.minX <= r.maxX
      /\ r.minY <= r.maxY
      /\ (r.maxX - r.minX + 1) * (r.maxY - r.minY + 1) <= MaxTiles }

TileCountOf_Exclusive(r) == (r.maxX - r.minX) * (r.maxY - r.minY)

\* tileCount := int(max.X-min.X+1) * int(max.Y-min.Y+1)
TileCountOf(r) == (r.maxX - r.minX + 1) * (r.maxY - r.minY + 1)

InRange(r, c) == /\ r.minX <= c[1] /\ c[1] <= r.maxX
                 /\ r.minY <= c[2] /\ c[2] <= r.maxY

(* --------------------------- getTileInfo ------------------------------- *)
SumFeatures_Overwrite(layers) ==
  IF layers = <<>> THEN 0 ELSE layers[Len(layers)].Count

\* the loop over the decoded layers: features += uint64(count)
RECURSIVE SumFeatures(_)
SumFeatures(layers) ==
  IF layers = <<>> THEN 0
  ELSE AddU64(SumFeatures(SubSeq(layers, 1, Len(layers) - 1)),
              layers[Len(layers)].Count)

\* the tileInfo getTileInfo sends for coordinate c and response resp
TileInfo(c, resp) ==
  [X |-> c[1], Y |-> c[2], Size |-> resp.Size,
   Features |-> SumFeatures(resp.Layers), Layers |-> resp.Layers]

(* ------------------------------ reducer -------------------------------- *)
\* make(map[string]*layerCount): a function from the names it holds
EmptyMap == [n \in {} |-> 0]

\* the reducer's local variables before its loop
InitRed ==
  [minTileSize |-> MaxUint64, maxTileSize |-> 0, totalTileSize |-> 0,
   minFeatures |-> MaxUint64, maxFeatures |-> 0, totalFeatures |-> 0,
   minTileSizeAtX |-> 0, minTileSizeAtY |-> 0,
   maxTileSizeAtX |-> 0, maxTileSizeAtY |-> 0,
   minFeaturesAtX |-> 0, minFeaturesAtY |-> 0,
   maxFeaturesAtX |-> 0, maxFeaturesAtY |-> 0,
   layer2CountMap |-> EmptyMap]

GreaterThan_Never(a, b) == FALSE
LessThan_OrEqualOnly(a, b) == a = b

\* the comparisons that decide whether an extremum is replaced
LessThan(a, b) == a < b
GreaterThan(a, b) == a > b

TotalTileSizeStep_Assign(r, info) == info.Size

\* totalTileSize += info.Size
TotalTileSizeStep(r, info) == AddU64(r.totalTileSize, info.Size)

TotalFeaturesStep_Assign(r, info) == info.Features

\* totalFeatures += info.Features
TotalFeaturesStep(r, info) == AddU64(r.totalFeatures, info.Features)

CoverStep_Stuck(count) == count.tile

\* count.tile += 1
CoverStep(count) == count.tile + 1

LayerTotalStep_Assign(count, linfo) == linfo.Count

\* count.total += linfo.Count
LayerTotalStep(count, linfo) == AddU64(count.total, linfo.Count)

\* one layerInfo of info applied to the map
UpdateLayer(m, info, linfo) ==
  IF linfo.Name \notin DOMAIN m
  THEN [n \in DOMAIN m \cup {linfo.Name} |->
          IF n = linfo.Name
          THEN [min |-> linfo.Count, minAtX |-> info.X, minAtY |-> info.Y,
                max |-> linfo.Count, maxAtX |-> info.X, maxAtY |-> info.Y,
                total |-> linfo.Count, tile |-> 1]
          ELSE m[n]]
  ELSE LET count == m[linfo.Name]
           lt == LessThan(linfo.Count, count.min)
           gt == GreaterThan(linfo.Count, count.max)
       IN [m EXCEPT ![linfo.Name] =
             [min |-> IF lt THEN linfo.Count ELSE count.min,
              minAtX |-> IF lt THEN info.X ELSE count.minAtX,
              minAtY |-> IF lt THEN info.Y ELSE count.minAtY,
              max |-> IF gt THEN linfo.Count ELSE count.max,
              maxAtX |-> IF gt THEN info.X ELSE count.maxAtX,
              maxAtY |-> IF gt THEN info.Y ELSE count.maxAtY,
              total |-> LayerTotalStep(count, linfo),
              tile |-> CoverStep(count)]]

\* for _, linfo := range info.Layers, from the i-th layer on
RECURSIVE UpdateLayers(_, _, _)
UpdateLayers(m, info, i) ==
  IF i > Len(info.Layers) THEN m
  ELSE UpdateLayers(UpdateLayer(m, info, info.Layers[i]), info, i + 1)

\* the body of the reducer's loop for one received info
Reduce(r, info) ==
  LET ltS == LessThan(info.Size, r.minTileSize)
      gtS == GreaterThan(info.Size, r.maxTileSize)
      ltF == LessThan(info.Features, r.minFeatures)
      gtF == GreaterThan(info.Features, r.maxFeatures)
  IN [minTileSize |-> IF ltS THEN info.Size ELSE r.minTileSize,
      minTileSizeAtX |-> IF ltS THEN info.X ELSE r.minTileSizeAtX,
      minTileSizeAtY |-> IF ltS THEN info.Y ELSE r.minTileSizeAtY,
      maxTileSize |-> IF gtS THEN info.Size ELSE r.maxTileSize,
      maxTileSizeAtX |-> IF gtS THEN info.X ELSE r.maxTileSizeAtX,
      maxTileSizeAtY |-> IF gtS THEN info.Y ELSE r.maxTileSizeAtY,
      totalTileSize |-> TotalTileSizeStep(r, info),
      minFeatures |-> IF ltF THEN info.Features ELSE r.minFeatures,
      minFeaturesAtX |-> IF ltF THEN info.X ELSE r.minFeaturesAtX,
      minFeaturesAtY |-> IF ltF THEN info.Y ELSE r.minFeaturesAtY,
      maxFeatures |-> IF gtF THEN info.Features ELSE r.maxFeatures,
      maxFeaturesAtX |-> IF gtF THEN info.X ELSE r.maxFeaturesAtX,
      maxFeaturesAtY |-> IF gtF THEN info.Y ELSE r.maxFeaturesAtY,
      totalFeatures |-> TotalFeaturesStep(r, info),
      layer2CountMap |-> UpdateLayers(r.layer2CountMap, info, 1)]

Less_LongerFirst(a, b) == Len(a) > Len(b) \/ (Len(a) = Len(b) /\ a[1] > b[1])

\* c[i].layer < c[j].layer on byte strings
RECURSIVE Less(_, _)
Less(a, b) ==
  IF b = <<>> THEN FALSE
  ELSE IF a = <<>> THEN TRUE
  ELSE IF a[1] # b[1] THEN a[1] < b[1]
  ELSE Less(Tail(a), Tail(b))

\* the layerCount values copied out of the map, each with its key as layer
CountsOf(m) == { [layer |-> n, min |-> m[n].min, minAtX |-> m[n].minAtX,
                  minAtY |-> m[n].minAtY, max |-> m[n].max,
                  maxAtX |-> m[n].maxAtX, maxAtY |-> m[n].maxAtY,
                  total |-> m[n].total, tile |-> m[n].tile] : n \in DOMAIN m }

\* sort.Sort(counts): the elements ordered by Less on layer
RECURSIVE SortCounts(_)
SortCounts(S) ==
  IF S = {} THEN <<>>
  ELSE LET first == CHOOSE c \in S :
                      \A d \in S \ {c} : ~Less(d.layer, c.layer)
       IN <<first>> \o SortCounts(S \ {first})

\* what the reducer prints after its loop
NoReport == [printed |-> FALSE]
ReportOf(r, n) ==
  [printed |-> TRUE, tileCount |-> n,
   minTileSize |-> r.minTileSize,
   minTileSizeAt |-> <<r.minTileSizeAtX, r.minTileSizeAtY>>,
   maxTileSize |-> r.maxTileSize,
   maxTileSizeAt |-> <<r.maxTileSizeAtX, r.maxTileSizeAtY>>,
   avgTileSize |-> <<r.totalTileSize, n>>,
   minFeatures |-> r.minFeatures,
   minFeaturesAt |-> <<r.minFeaturesAtX, r.minFeaturesAtY>>,
   maxFeatures |-> r.maxFeatures,
   maxFeaturesAt |-> <<r.maxFeaturesAtX, r.maxFeaturesAtY>>,
   avgFeatures |-> <<r.totalFeatures, n>>,
   counts |-> SortCounts(CountsOf(r.layer2CountMap))]

(* ------------------------------- state --------------------------------- *)
VARIABLES
  noGzip,     \* the -no-gzip flag
  rng,        \* min, max of tile.Range(z)
  tileCount,  \* tileCount of main
  pcMain,     \* where the main goroutine is
  lx, ly,     \* x, y of main's launch loops
  wg,         \* counter of the sync.WaitGroup
  tasks,      \* the fetch goroutines started so far, in start order
  closed,     \* whether ch has been closed
  pcRed,      \* where the reducer goroutine is
  red,        \* the reducer's local variables
  fed,        \* the tileInfo values the reducer's loop has received, in order
  out,        \* what the reducer has printed
  crashed     \* whether a panic has terminated the process

vars == <<noGzip, rng, tileCount, pcMain, lx, ly, wg, tasks, closed, pcRed, red, fed,
          out, crashed>>

NoInfo == [X |-> -1, Y |-> -1, Size |-> 0, Features |-> 0, Layers |-> <<>>]

\* the process is alive: no panic has ended it and main has not returned
Running == ~crashed /\ pcMain # "exit"

Init ==
  /\ noGzip = FALSE
  /\ rng \in Ranges
  /\ tileCount = TileCountOf(rng)
  /\ pcMain = "add"
  /\ lx = rng.minX
  /\ ly = rng.minY
  /\ wg = 0
  /\ tasks = <<>>
  /\ closed = FALSE
  /\ pcRed = "range"
  /\ red = InitRed
  /\ fed = <<>>
  /\ out = NoReport
  /\ crashed = FALSE

(* ------------------------------- main ---------------------------------- *)
\* wg.Add(tileCount)
MainAdd ==
  /\ Running /\ pcMain = "add"
  /\ wg' = wg + tileCount
  /\ pcMain' = "launch"
  /\ UNCHANGED <<noGzip, rng, tileCount, lx, ly, tasks, closed, pcRed, red, fed, out,
                 crashed>>

LaunchArgs_Swapped(x, y) == <<y, x>>

\* the arguments of the goroutine started at loop position (x, y)
LaunchArgs(x, y) == <<x, y>>

\* one go statement of the nested loops, and the step to the next (x, y)
MainLaunch ==
  /\ Running /\ pcMain = "launch"
  /\ tasks' = Append(tasks, [x |-> LaunchArgs(lx, ly)[1],
                             y |-> LaunchArgs(lx, ly)[2],
                             pc |-> "fetch", info |-> NoInfo])
  /\ IF ly < rng.maxY
     THEN /\ ly' = ly + 1
          /\ UNCHANGED <<lx, pcMain>>
     ELSE IF lx < rng.maxX
     THEN /\ lx' = lx + 1
          /\ ly' = rng.minY
          /\ UNCHANGED pcMain
     ELSE /\ pcMain' = "wait"
          /\ UNCHANGED <<lx, ly>>
  /\ UNCHANGED <<noGzip, rng, tileCount, wg, closed, pcRed, red, fed, out, crashed>>

WaitReturns_Always(w) == TRUE

\* the condition wg.Wait() returns on
WaitReturns(w) == w = 0

\* wg.Wait()
MainWait ==
  /\ Running /\ pcMain = "wait"
  /\ WaitReturns(wg)
  /\ pcMain' = "close"
  /\ UNCHANGED <<noGzip, rng, tileCount, lx, ly, wg, tasks, closed, pcRed, red, fed,
                 out, crashed>>

\* close(ch)
MainClose ==
  /\ Running /\ pcMain = "close"
  /\ closed' = TRUE
  /\ pcMain' = "recvdone"
  /\ UNCHANGED <<noGzip, rng, tileCount, lx, ly, wg, tasks, pcRed, red, fed, out,
                 crashed>>

(* -------------------------- fetch goroutines --------------------------- *)
FetchOK_FoldsItself(i, resp) ==
  /\ Running /\ tasks[i].pc = "fetch"
  /\ tasks' = [tasks EXCEPT ![i].pc = "send",
                            ![i].info = TileInfo(<<tasks[i].x, tasks[i].y>>,
                                                 resp)]
  /\ red' = [red EXCEPT !.totalTileSize = AddU64(red.totalTileSize, resp.Size),
                        !.maxTileSize = resp.Size]
  /\ UNCHANGED <<noGzip, rng, tileCount, pcMain, lx, ly, wg, closed, pcRed,
                 fed, out, crashed>>

WgDone_Forgotten(w) == w

\* wg.Done()
WgDone(w) == w - 1

\* getTileInfo up to the construction of info, every step succeeding
FetchOK(i, resp) ==
  /\ Running /\ tasks[i].pc = "fetch"
  /\ tasks' = [tasks EXCEPT ![i].pc = "send",
                            ![i].info = TileInfo(<<tasks[i].x, tasks[i].y>>,
                                                 resp)]
  /\ UNCHANGED <<noGzip, rng, tileCount, pcMain, lx, ly, wg, closed, pcRed, red, fed,
                 out, crashed>>

\* getTileInfo reaching one of its panic(err) statements
FetchFail(i) ==
  /\ Running /\ tasks[i].pc = "fetch"
  /\ tasks' = [tasks EXCEPT ![i].pc = "panic"]
  /\ UNCHANGED <<noGzip, rng, tileCount, pcMain, lx, ly, wg, closed, pcRed, red, fed,
                 out, crashed>>

\* the deferred wg.Done() run while the panic unwinds the goroutine
PanicDefer(i) ==
  /\ Running /\ tasks[i].pc = "panic"
  /\ wg' = WgDone(wg)
  /\ tasks' = [tasks EXCEPT ![i].pc = "unwound"]
  /\ UNCHANGED <<noGzip, rng, tileCount, pcMain, lx, ly, closed, pcRed, red, fed, out,
                 crashed>>

\* the panic, not recovered, terminates the process
Crash(i) ==
  /\ Running /\ tasks[i].pc = "unwound"
  /\ crashed' = TRUE
  /\ UNCHANGED <<noGzip, rng, tileCount, pcMain, lx, ly, wg, tasks, closed, pcRed, red,
                 fed, out>>

\* ch <- info meeting the reducer's receive (ch is unbuffered), and the body
\* of the reducer's loop for the value received
Receive(i) ==
  /\ Running /\ tasks[i].pc = "send"
  /\ pcRed = "range" /\ ~closed
  /\ red' = Reduce(red, tasks[i].info)
  /\ fed' = Append(fed, tasks[i].info)
  /\ tasks' = [tasks EXCEPT ![i].pc = "sent"]
  /\ UNCHANGED <<noGzip, rng, tileCount, pcMain, lx, ly, wg, closed, pcRed, out,
                 crashed>>

\* getTileInfo returns and the deferred wg.Done() runs
TaskDone(i) ==
  /\ Running /\ tasks[i].pc = "sent"
  /\ wg' = WgDone(wg)
  /\ tasks' = [tasks EXCEPT ![i].pc = "done", ![i].info = NoInfo]
  /\ UNCHANGED <<noGzip, rng, tileCount, pcMain, lx, ly, closed, pcRed, red, fed, out,
                 crashed>>

(* ------------------------------ reducer -------------------------------- *)
\* for info := range ch ends: ch is closed and empty
LoopExit ==
  /\ Running /\ pcRed = "range"
  /\ closed
  /\ pcRed' = "report"
  /\ UNCHANGED <<noGzip, rng, tileCount, pcMain, lx, ly, wg, tasks, closed, red, fed,
                 out, crashed>>

\* the averages, the sorted counts and the printing
Report ==
  /\ Running /\ pcRed = "report"
  /\ out' = ReportOf(red, tileCount)
  /\ pcRed' = "senddone"
  /\ UNCHANGED <<noGzip, rng, tileCount, pcMain, lx, ly, wg, tasks, closed, red, fed,
                 crashed>>

DoneHandoff_NoReceive ==
  /\ Running /\ pcMain = "recvdone"
  /\ pcMain' = "exit"
  /\ UNCHANGED <<noGzip, rng, tileCount, lx, ly, wg, tasks, closed, pcRed, red, fed,
                 out, crashed>>

\* done <- struct{}{} meeting main's <-done; main returns
DoneHandoff ==
  /\ Running /\ pcRed = "senddone" /\ pcMain = "recvdone"
  /\ pcRed' = "exit"
  /\ pcMain' = "exit"
  /\ UNCHANGED <<noGzip, rng, tileCount, lx, ly, wg, tasks, closed, red, fed, out,
                 crashed>>

Next ==
  \/ MainAdd
  \/ MainLaunch
  \/ MainWait
  \/ MainClose
  \/ \E i \in 1..Len(tasks) : \E resp \in Responses : FetchOK(i, resp)
  \/ \E i \in 1..Len(tasks) : FetchFail(i)
  \/ \E i \in 1..Len(tasks) : PanicDefer(i)
  \/ \E i \in 1..Len(tasks) : Crash(i)
  \/ \E i \in 1..Len(tasks) : Receive(i)
  \/ \E i \in 1..Len(tasks) : TaskDone(i)
  \/ LoopExit
  \/ Report
  \/ DoneHandoff

Spec == Init /\ [][Next]_vars

(* ----------------------- the reducer on its own ------------------------ *)
\* the reducer goroutine started as in main, with a feeder in place of main
\* and the fetch goroutines: it sends tileCount values, each for another
\* coordinate, then closes ch and waits for done
InitReduce ==
  /\ noGzip = FALSE
  /\ rng = [minX |-> 0, maxX |-> 0, minY |-> 0, maxY |-> 0]
  /\ tileCount \in 1..MaxFeed
  /\ pcMain = "feed"
  /\ lx = 0
  /\ ly = 0
  /\ wg = 0
  /\ tasks = <<>>
  /\ closed = FALSE
  /\ pcRed = "range"
  /\ red = InitRed
  /\ fed = <<>>
  /\ out = NoReport
  /\ crashed = FALSE

FedCoords == { <<fed[k].X, fed[k].Y>> : k \in 1..Len(fed) }

\* the feeder's ch <- info meeting the reducer's receive, and the body of the
\* reducer's loop for the value received
Feed(c, resp) ==
  /\ Running /\ pcMain = "feed"
  /\ pcRed = "range" /\ ~closed
  /\ Len(fed) < tileCount
  /\ c \notin FedCoords
  /\ red' = Reduce(red, TileInfo(c, resp))
  /\ fed' = Append(fed, TileInfo(c, resp))
  /\ UNCHANGED <<noGzip, rng, tileCount, pcMain, lx, ly, wg, tasks, closed, pcRed, out,
                 crashed>>

\* the feeder's close(ch)
FeedClose ==
  /\ Running /\ pcMain = "feed"
  /\ Len(fed) = tileCount
  /\ closed' = TRUE
  /\ pcMain' = "recvdone"
  /\ UNCHANGED <<noGzip, rng, tileCount, lx, ly, wg, tasks, pcRed, red, fed, out,
                 crashed>>

NextReduce ==
  \/ \E c \in FeedCoords : \E resp \in FeedResponses : Feed(c, resp)
  \/ FeedClose
  \/ LoopExit
  \/ Report
  \/ DoneHandoff

SpecReduce == InitReduce /\ [][NextReduce]_vars

(* ----------------------- getTileInfo on its own ------------------------ *)
\* what http.DefaultClient.Do and ioutil.ReadAll hand to getTileInfo: the
\* length of the body read, whether Content-Encoding names gzip, the length
\* the body has after gunzip (NotGzip when it is no gzip stream), and the
\* layers of the tile the body carries
NotGzip == -1
HTTPResp(len, ce, plain, layers) ==
  [Len |-> len, Gzip |-> ce, Plain |-> plain, Layers |-> layers]

HTTPResponses ==
  { HTTPResp(0, FALSE, NotGzip, <<>>),
    HTTPResp(9, FALSE, NotGzip, <<LI(roads, 1)>>),
    HTTPResp(5, TRUE, 9, <<LI(roads, 1)>>),
    HTTPResp(7, TRUE, 30, <<LI(roads, 7), LI(water, 3)>>),
    HTTPResp(4, TRUE, NotGzip, <<>>),
    HTTPResp(6, FALSE, 12, <<LI(water, 2)>>) }

\* one fetch goroutine started for one coordinate, the flag either way
InitFetch ==
  /\ noGzip \in BOOLEAN
  /\ rng = [minX |-> 0, maxX |-> 0, minY |-> 0, maxY |-> 0]
  /\ tileCount = 1
  /\ pcMain = "wait"
  /\ lx = 0
  /\ ly = 0
  /\ wg = 1
  /\ \E c \in FeedCoords :
       tasks = << [x |-> c[1], y |-> c[2], pc |-> "fetch", info |-> NoInfo,
                   resp |-> HTTPResp(0, FALSE, NotGzip, <<>>),
                   size |-> 0, data |-> 0, gz |-> FALSE] >>
  /\ closed = FALSE
  /\ pcRed = "range"
  /\ red = InitRed
  /\ fed = <<>>
  /\ out = NoReport
  /\ crashed = FALSE

\* the request is built and http.DefaultClient.Do returns a response
FetchDo(i, http) ==
  /\ Running /\ tasks[i].pc = "fetch"
  /\ tasks' = [tasks EXCEPT ![i].pc = "read", ![i].resp = http]
  /\ UNCHANGED <<noGzip, rng, tileCount, pcMain, lx, ly, wg, closed, pcRed,
                 red, fed, out, crashed>>

\* data, err := ioutil.ReadAll(resp.Body); size := len(data)
FetchRead(i) ==
  /\ Running /\ tasks[i].pc = "read"
  /\ tasks' = [tasks EXCEPT ![i].pc = "encoding",
                            ![i].data = tasks[i].resp.Len,
                            ![i].gz = (tasks[i].resp.Plain # NotGzip),
                            ![i].size = tasks[i].resp.Len]
  /\ UNCHANGED <<noGzip, rng, tileCount, pcMain, lx, ly, wg, closed, pcRed,
                 red, fed, out, crashed>>

\* if strings.Contains(ce, "gzip") && !noGzip
Decompresses(ce, ng) == ce /\ ~ng

\* the gzip branch: data is replaced by what gzip.NewReader reads out of it,
\* or the goroutine panics when data is no gzip stream
FetchGunzip(i) ==
  /\ Running /\ tasks[i].pc = "encoding"
  /\ IF Decompresses(tasks[i].resp.Gzip, noGzip)
     THEN IF tasks[i].gz
          THEN tasks' = [tasks EXCEPT ![i].pc = "decode",
                                      ![i].data = tasks[i].resp.Plain,
                                      ![i].gz = FALSE]
          ELSE tasks' = [tasks EXCEPT ![i].pc = "panic"]
     ELSE tasks' = [tasks EXCEPT ![i].pc = "decode"]
  /\ UNCHANGED <<noGzip, rng, tileCount, pcMain, lx, ly, wg, closed, pcRed,
                 red, fed, out, crashed>>

InfoSize_OfData(t) == t.data

\* Size: uint64(size)
InfoSize(t) == t.size

\* mvt.Unmarshal(data) and the construction of info; bytes still gzipped do
\* not decode and the goroutine panics
FetchDecode(i) ==
  /\ Running /\ tasks[i].pc = "decode"
  /\ IF tasks[i].gz
     THEN tasks' = [tasks EXCEPT ![i].pc = "panic"]
     ELSE tasks' = [tasks EXCEPT
                      ![i].pc = "send",
                      ![i].info = TileInfo(<<tasks[i].x, tasks[i].y>>,
                                           Resp(InfoSize(tasks[i]),
                                                tasks[i].resp.Layers))]
  /\ UNCHANGED <<noGzip, rng, tileCount, pcMain, lx, ly, wg, closed, pcRed,
                 red, fed, out, crashed>>

NextFetch ==
  \/ \E i \in 1..Len(tasks) : \E http \in HTTPResponses : FetchDo(i, http)
  \/ \E i \in 1..Len(tasks) : FetchRead(i)
  \/ \E i \in 1..Len(tasks) : FetchGunzip(i)
  \/ \E i \in 1..Len(tasks) : FetchDecode(i)

SpecFetch == InitFetch /\ [][NextFetch]_vars

(* ------------------- the program when no fetch fails ------------------- *)
\* the responses of the failure-free program: an empty tile and a tile of
\* one layer
LiveResponses == {Resp(0, <<>>), Resp(1, <<LI(roads, 1)>>)}

\* the steps of the i-th fetch goroutine when getTileInfo passes every
\* err check
FetchStep(i) ==
  /\ i \in 1..Len(tasks)
  /\ \/ \E resp \in LiveResponses : FetchOK(i, resp)
     \/ Receive(i)
     \/ TaskDone(i)

\* the steps of the main goroutine up to close(ch)
MainStep == MainAdd \/ MainLaunch \/ MainWait \/ MainClose

\* the steps of the reducer goroutine after its loop
ReducerStep == LoopExit \/ Report

NextLive ==
  \/ MainStep
  \/ \E i \in 1..MaxTiles : FetchStep(i)
  \/ ReducerStep
  \/ DoneHandoff

\* the Go scheduler runs every runnable goroutine again, and a goroutine
\* blocked on a channel operation proceeds once its partner is ready
Fairness ==
  /\ WF_vars(MainStep)
  /\ \A i \in 1..MaxTiles : WF_vars(FetchStep(i))
  /\ WF_vars(ReducerStep)
  /\ WF_vars(DoneHandoff)

SpecLive == Init /\ [][NextLive]_vars /\ Fairness

(* ------------------------------ claims --------------------------------- *)
\* some fetch goroutine has reached a panic(err) of getTileInfo
FetchFailed == \E i \in 1..Len(tasks) : tasks[i].pc \in {"panic", "unwound"}

\* the reducer has left its loop
Finalized == pcRed # "range"

\* C1: once one of the scheduled fetches has failed, the reducer never prints
\* a report, in any interleaving of the fetch goroutines, main and the reducer.
C1_NoReportAfterFailure == FetchFailed => ~out.printed

\* C2: when every fetch succeeds, the number of results the reducer has folded
\* when it finalizes, and the tile count it reports and divides by, equal
\* (maxX-minX+1)*(maxY-minY+1).
C2_FoldedEqualsTileCount ==
  (Finalized /\ ~FetchFailed) =>
    /\ Len(fed) = (rng.maxX - rng.minX + 1) * (rng.maxY - rng.minY + 1)
    /\ out.printed =>
         /\ out.tileCount = Len(fed)
         /\ out.avgTileSize[2] = Len(fed)
         /\ out.avgFeatures[2] = Len(fed)

C2_Witness ==
  /\ out.printed /\ ~FetchFailed
  /\ Len(fed) = 3 /\ out.tileCount = 3
  /\ rng.minX = 1 /\ rng.maxY = rng.minY + 2

\* C3: every layer of the finalized mapping has a tile coverage count that is
\* at most the global tile count.
C3_CoverAtMostTileCount ==
  Finalized =>
    \A n \in DOMAIN red.layer2CountMap :
      /\ red.layer2CountMap[n].tile <= Len(fed)
      /\ red.layer2CountMap[n].tile <= tileCount

\* the positions of fed
FedIdx == 1..Len(fed)

\* some fed result at coordinate (x, y) has value v in field f
ObservedAt(f, v, x, y) ==
  \E k \in FedIdx : fed[k].X = x /\ fed[k].Y = y /\ fed[k][f] = v

\* C4: after a non-empty stream has been consumed, each global extremum
\* (minSize, maxSize, minFeatures, maxFeatures) carries the coordinate of a fed
\* result whose byte size / feature total equals the recorded value.
C4_ExtremaCarryCoordinate ==
  (Finalized /\ fed # <<>>) =>
    /\ ObservedAt("Size", red.minTileSize,
                  red.minTileSizeAtX, red.minTileSizeAtY)
    /\ ObservedAt("Size", red.maxTileSize,
                  red.maxTileSizeAtX, red.maxTileSizeAtY)
    /\ ObservedAt("Features", red.minFeatures,
                  red.minFeaturesAtX, red.minFeaturesAtY)
    /\ ObservedAt("Features", red.maxFeatures,
                  red.maxFeaturesAtX, red.maxFeaturesAtY)

\* the sum of field f over the fed results at the positions in K
RECURSIVE SumOver(_, _)
SumOver(f, K) ==
  IF K = {} THEN 0
  ELSE LET k == CHOOSE j \in K : TRUE
       IN fed[k][f] + SumOver(f, K \ {k})

\* C5: after full consumption the global total size is the sum of the byte
\* sizes of all fed results, whatever the order they were fed in.
C5_TotalSizeIsSum ==
  Finalized => red.totalTileSize = SumOver("Size", FedIdx)

C5_Witness ==
  /\ Finalized /\ Len(fed) = 3
  /\ red.totalTileSize = 600
  /\ fed[1].Size = 300 /\ fed[2].Size = 100 /\ fed[3].Size = 200

\* the sum of the feature counts of the samples of layers at positions in J
RECURSIVE SumCounts(_, _)
SumCounts(layers, J) ==
  IF J = {} THEN 0
  ELSE LET j == CHOOSE i \in J : TRUE
       IN layers[j].Count + SumCounts(layers, J \ {j})

\* C6: after full consumption the global feature total is the sum of the
\* feature totals of all fed results, and every result built by the fetcher
\* has a feature total equal to the sum of its layer samples' feature counts.
C6_TotalFeaturesIsSum ==
  /\ Finalized => red.totalFeatures = SumOver("Features", FedIdx)
  /\ \A k \in FedIdx :
       fed[k].Features = SumCounts(fed[k].Layers, 1..Len(fed[k].Layers))

C6_Witness ==
  /\ Finalized /\ Len(fed) = 3
  /\ red.totalFeatures = 17
  /\ \E k \in FedIdx : Len(fed[k].Layers) = 2 /\ fed[k].Features = 10

\* C7: after a non-empty stream has been consumed, minSize <= the byte size of
\* every fed result <= maxSize, and minFeatures <= the feature total of every
\* fed result <= maxFeatures.
C7_ExtremaBoundEveryResult ==
  (Finalized /\ fed # <<>>) =>
    \A k \in FedIdx :
      /\ red.minTileSize <= fed[k].Size
      /\ fed[k].Size <= red.maxTileSize
      /\ red.minFeatures <= fed[k].Features
      /\ fed[k].Features <= red.maxFeatures

C7_Witness ==
  /\ Finalized /\ Len(fed) = 3
  /\ fed[1].Size = 200 /\ fed[2].Size = 300 /\ fed[3].Size = 100
  /\ red.minTileSize = 100 /\ red.maxTileSize = 300
  /\ red.minFeatures < red.maxFeatures

\* the coordinate of the first fed result with value v in field f
FirstAt(f, v) ==
  LET k == CHOOSE j \in FedIdx :
             /\ fed[j][f] = v
             /\ \A i \in 1..(j - 1) : fed[i][f] # v
  IN <<fed[k].X, fed[k].Y>>

\* the fed result at position k has a sample of layer n with count v
HasSample(k, n, v) ==
  \E j \in 1..Len(fed[k].Layers) :
    fed[k].Layers[j].Name = n /\ fed[k].Layers[j].Count = v

\* the coordinate of the first fed result with a sample of layer n of count v
FirstSampleAt(n, v) ==
  LET k == CHOOSE j \in FedIdx :
             /\ HasSample(j, n, v)
             /\ \A i \in 1..(j - 1) : ~HasSample(i, n, v)
  IN <<fed[k].X, fed[k].Y>>

\* two or more fed results have value v in field f
Tied(f, v) == Cardinality({k \in FedIdx : fed[k][f] = v}) >= 2

\* two or more fed results have a sample of layer n with count v
TiedSample(n, v) == Cardinality({k \in FedIdx : HasSample(k, n, v)}) >= 2

\* C8: when two or more fed results share an extremal value, the coordinate
\* recorded for that extremum is that of the first of them in feed order, for
\* the global size and feature extrema and for every layer's min and max.
C8_FirstObservedWinsTies ==
  Finalized =>
    /\ Tied("Size", red.minTileSize) =>
         <<red.minTileSizeAtX, red.minTileSizeAtY>>
           = FirstAt("Size", red.minTileSize)
    /\ Tied("Size", red.maxTileSize) =>
         <<red.maxTileSizeAtX, red.maxTileSizeAtY>>
           = FirstAt("Size", red.maxTileSize)
    /\ Tied("Features", red.minFeatures) =>
         <<red.minFeaturesAtX, red.minFeaturesAtY>>
           = FirstAt("Features", red.minFeatures)
    /\ Tied("Features", red.maxFeatures) =>
         <<red.maxFeaturesAtX, red.maxFeaturesAtY>>
           = FirstAt("Features", red.maxFeatures)
    /\ \A n \in DOMAIN red.layer2CountMap :
         LET count == red.layer2CountMap[n]
         IN /\ TiedSample(n, count.min) =>
                 <<count.minAtX, count.minAtY>> = FirstSampleAt(n, count.min)
            /\ TiedSample(n, count.max) =>
                 <<count.maxAtX, count.maxAtY>> = FirstSampleAt(n, count.max)

\* the three results of the round-trip scenario, in feed order
Scenario ==
  << TileInfo(<<0, 0>>, Resp(100, <<LI(roads, 5)>>)),
     TileInfo(<<1, 0>>, Resp(300, <<LI(roads, 2)>>)),
     TileInfo(<<0, 1>>, Resp(200, <<LI(roads, 7), LI(water, 3)>>)) >>

\* C9: fed (0,0) size 100 {roads:5}, (1,0) size 300 {roads:2}, (0,1) size 200
\* {roads:7, water:3} in that order, the reducer reports tile count 3, sizes
\* min 100@(0,0) max 300@(1,0) total 600, features min 2@(1,0) max 10@(0,1)
\* total 17, roads cover 3 min 2@(1,0) max 7@(0,1) total 14, water cover 1
\* min = max 3@(0,1) total 3, and lists roads before water.
C9_RoundTripScenario ==
  (fed = Scenario /\ out.printed) =>
    /\ Scenario[1].Features = 5 /\ Scenario[2].Features = 2
    /\ Scenario[3].Features = 10
    /\ out.tileCount = 3
    /\ out.minTileSize = 100 /\ out.minTileSizeAt = <<0, 0>>
    /\ out.maxTileSize = 300 /\ out.maxTileSizeAt = <<1, 0>>
    /\ out.avgTileSize = <<600, 3>>
    /\ out.minFeatures = 2 /\ out.minFeaturesAt = <<1, 0>>
    /\ out.maxFeatures = 10 /\ out.maxFeaturesAt = <<0, 1>>
    /\ out.avgFeatures = <<17, 3>>
    /\ out.counts =
         << [layer |-> roads, tile |-> 3, min |-> 2, minAtX |-> 1,
             minAtY |-> 0, max |-> 7, maxAtX |-> 0, maxAtY |-> 1,
             total |-> 14],
            [layer |-> water, tile |-> 1, min |-> 3, minAtX |-> 0,
             minAtY |-> 1, max |-> 3, maxAtX |-> 0, maxAtY |-> 1,
             total |-> 3] >>

C9_Witness == fed = Scenario /\ out.printed /\ Len(out.counts) = 2

\* the reducer's variables after its loop has received the sequence s
RECURSIVE ReduceAll(_)
ReduceAll(s) ==
  IF s = <<>> THEN InitRed
  ELSE Reduce(ReduceAll(SubSeq(s, 1, Len(s) - 1)), s[Len(s)])

\* the values of the aggregates, without the coordinates
ValuesOf(r) ==
  [minTileSize |-> r.minTileSize, maxTileSize |-> r.maxTileSize,
   totalTileSize |-> r.totalTileSize, minFeatures |-> r.minFeatures,
   maxFeatures |-> r.maxFeatures, totalFeatures |-> r.totalFeatures,
   layers |-> [n \in DOMAIN r.layer2CountMap |->
                 [min |-> r.layer2CountMap[n].min,
                  max |-> r.layer2CountMap[n].max,
                  total |-> r.layer2CountMap[n].total,
                  tile |-> r.layer2CountMap[n].tile]]]

\* which extrema of r two or more fed results tie for
TiesOf(r) ==
  [minTileSize |-> Tied("Size", r.minTileSize),
   maxTileSize |-> Tied("Size", r.maxTileSize),
   minFeatures |-> Tied("Features", r.minFeatures),
   maxFeatures |-> Tied("Features", r.maxFeatures),
   layers |-> [n \in DOMAIN r.layer2CountMap |->
                 [min |-> TiedSample(n, r.layer2CountMap[n].min),
                  max |-> TiedSample(n, r.layer2CountMap[n].max)]]]

\* a and b record the same coordinate for every extremum not tied per t
UntiedCoordsAgree(a, b, t) ==
  /\ t.minTileSize \/ (/\ a.minTileSizeAtX = b.minTileSizeAtX
                       /\ a.minTileSizeAtY = b.minTileSizeAtY)
  /\ t.maxTileSize \/ (/\ a.maxTileSizeAtX = b.maxTileSizeAtX
                       /\ a.maxTileSizeAtY = b.maxTileSizeAtY)
  /\ t.minFeatures \/ (/\ a.minFeaturesAtX = b.minFeaturesAtX
                       /\ a.minFeaturesAtY = b.minFeaturesAtY)
  /\ t.maxFeatures \/ (/\ a.maxFeaturesAtX = b.maxFeaturesAtX
                       /\ a.maxFeaturesAtY = b.maxFeaturesAtY)
  /\ \A n \in DOMAIN t.layers :
       LET ca == a.layer2CountMap[n]
           cb == b.layer2CountMap[n]
       IN /\ t.layers[n].min \/ (ca.minAtX = cb.minAtX /\ ca.minAtY = cb.minAtY)
          /\ t.layers[n].max \/ (ca.maxAtX = cb.maxAtX /\ ca.maxAtY = cb.maxAtY)

\* C10: any other feed order of the same results finalizes with the same
\* global min / max / total of size and features and the same min, max, total
\* and coverage of every layer; only coordinates of tied extrema may differ.
C10_FeedOrderIndependent ==
  Finalized =>
    LET values == ValuesOf(red)
        ties == TiesOf(red)
    IN \A p \in Permutations(FedIdx) :
         LET other == ReduceAll([k \in FedIdx |-> fed[p[k]]])
         IN /\ ValuesOf(other) = values
            /\ UntiedCoordsAgree(other, red, ties)

C10_Witness ==
  /\ Finalized /\ Len(fed) = 3
  /\ fed[1] = Scenario[3] /\ fed[2] = Scenario[1] /\ fed[3] = Scenario[2]
  /\ DOMAIN red.layer2CountMap = {roads, water}
  /\ red.layer2CountMap[roads].tile = 3

\* the layer names of the samples of the fed results
FedNames ==
  UNION { { fed[k].Layers[j].Name : j \in 1..Len(fed[k].Layers) } :
          k \in FedIdx }

\* byte string a comes before byte string b in ordinal order: a is a proper
\* prefix of b, or at the first position where they differ a has the smaller
\* byte
OrdinalBefore(a, b) ==
  \E k \in 1..Len(b) :
    /\ k <= Len(a) + 1
    /\ \A i \in 1..(k - 1) : a[i] = b[i]
    /\ k = Len(a) + 1 \/ a[k] < b[k]

\* C11: the layer rows the reducer prints are strictly ascending by layer name
\* in ordinal byte order and hold every layer name of the fed results exactly
\* once.
C11_LayersSortedAndComplete ==
  out.printed =>
    /\ \A i, j \in 1..Len(out.counts) :
         i < j => OrdinalBefore(out.counts[i].layer, out.counts[j].layer)
    /\ { out.counts[i].layer : i \in 1..Len(out.counts) } = FedNames
    /\ Len(out.counts) = Cardinality(FedNames)

C11_Witness ==
  /\ out.printed
  /\ Len(out.counts) = 3
  /\ out.counts[1].layer = road
  /\ out.counts[2].layer = roads
  /\ out.counts[3].layer = water
  /\ \E j \in 1..Len(fed[1].Layers) : fed[1].Layers[j].Name = water

\* the fetch goroutines started for coordinate (x, y)
StartedFor(x, y) == { i \in 1..Len(tasks) : tasks[i].x = x /\ tasks[i].y = y }

\* main has left its launch loops
Launched == pcMain \notin {"add", "launch"}

\* C12: main starts exactly one fetch goroutine for every coordinate of the
\* range and none for a coordinate outside it, so the number started equals
\* tileCount, the value given to wg.Add; every goroutine fetches, and reports
\* in its result, the coordinate it was started for.
C12_OneFetchPerCoordinate ==
  /\ \A i \in 1..Len(tasks) :
       /\ InRange(rng, <<tasks[i].x, tasks[i].y>>)
       /\ Cardinality(StartedFor(tasks[i].x, tasks[i].y)) = 1
       /\ tasks[i].pc \in {"send", "sent"} =>
            (tasks[i].info.X = tasks[i].x /\ tasks[i].info.Y = tasks[i].y)
  /\ Len(tasks) <= tileCount
  /\ Launched =>
       /\ Len(tasks) = tileCount
       /\ \A x \in rng.minX..rng.maxX : \A y \in rng.minY..rng.maxY :
            Cardinality(StartedFor(x, y)) = 1
  /\ pcMain # "add" =>
       wg + Cardinality({ i \in 1..Len(tasks) :
                            tasks[i].pc \in {"done", "unwound"} }) = tileCount

C12_Witness ==
  /\ Launched
  /\ Len(tasks) = 3
  /\ rng.minX = 1 /\ rng.minY = 0 /\ rng.maxY = 2
  /\ tasks[1].pc = "sent" /\ tasks[1].info.X = 1 /\ tasks[1].info.Y = 0
  /\ tasks[3].y = 2

\* the fetch goroutine i has completed: its deferred wg.Done() has run, after
\* its send was received or while its panic unwound it
Completed(i) == tasks[i].pc \in {"done", "unwound"}

\* C13: ch is closed only after every started fetch goroutine has completed,
\* by sending its result or by a fatal failure, so no fetch goroutine is ever
\* at or before its send on ch once ch is closed.
C13_CloseAfterAllFetches ==
  (pcMain = "close" \/ closed) =>
    /\ Len(tasks) = (rng.maxX - rng.minX + 1) * (rng.maxY - rng.minY + 1)
    /\ \A i \in 1..Len(tasks) :
         /\ Completed(i)
         /\ tasks[i].pc \notin {"fetch", "send"}

C13_Witness ==
  /\ closed
  /\ Len(tasks) = 3
  /\ tasks[1].pc = "done" /\ tasks[2].pc = "unwound" /\ tasks[3].pc = "done"
  /\ Len(fed) = 2

\* C14: the reducer prints the report at most once and only after its loop has
\* ended; from the end of the loop on neither the aggregates nor, once
\* printed, the report change; main returns only after the reducer has sent
\* on done, which it does after printing.
C14_ReportOnceAndFinal ==
  /\ [](out.printed => pcRed \in {"senddone", "exit"})
  /\ [](pcMain = "exit" => (pcRed = "exit" /\ out.printed))
  /\ [][ /\ pcRed # "range" => (red' = red /\ fed' = fed /\ pcRed' # "range")
         /\ out.printed => (out' = out /\ pcRed' \in {"senddone", "exit"})
         /\ out' # out => (pcRed = "report" /\ out' = ReportOf(red, tileCount))
       ]_vars

C14_Witness ==
  /\ pcMain = "exit" /\ pcRed = "exit"
  /\ out.printed /\ out.tileCount = 3
  /\ Len(fed) = 3 /\ Len(out.counts) = 1

\* C15: the Size of the tileInfo a fetch goroutine sends is the length of the
\* body as read from the response, taken before decompression; when the
\* response is gzip-encoded and gzip is allowed it is the compressed length,
\* and the decompressed bytes serve only the decoding.
C15_SizeIsWireLength ==
  \A i \in 1..Len(tasks) :
    tasks[i].pc = "send" =>
      /\ tasks[i].info.Size = tasks[i].resp.Len
      /\ tasks[i].info.Layers = tasks[i].resp.Layers
      /\ (tasks[i].resp.Gzip /\ ~noGzip) =>
           /\ tasks[i].data = tasks[i].resp.Plain
           /\ tasks[i].info.Size = tasks[i].size

C15_Witness ==
  /\ ~noGzip
  /\ tasks[1].pc = "send"
  /\ tasks[1].resp.Gzip
  /\ tasks[1].resp.Len = 7 /\ tasks[1].data = 30
  /\ tasks[1].info.Size = 7 /\ tasks[1].info.Features = 10

\* C16: the reducer leaves its loop exactly when it has processed tileCount
\* results, in every run, also one in which a fetch fails: never after fewer,
\* and it never processes more.
C16_LoopExitsAtTileCount ==
  /\ Len(fed) <= tileCount
  /\ Finalized => Len(fed) = tileCount

\* C17: the aggregates are written only by the reducer goroutine, in the step
\* in which it receives a tileInfo from ch, and the report only by its printing
\* step; no step of main or of a fetch goroutine changes them, and a fetch
\* goroutine's result reaches them only as the value it sends on ch.
C17_SingleWriter ==
  [][ /\ (red' # red \/ fed' # fed) =>
           /\ pcRed = "range" /\ pcRed' = "range"
           /\ pcMain' = pcMain /\ wg' = wg /\ closed' = closed
           /\ \E i \in 1..Len(tasks) :
                /\ tasks[i].pc = "send"
                /\ tasks' = [tasks EXCEPT ![i].pc = "sent"]
                /\ fed' = Append(fed, tasks[i].info)
                /\ red' = Reduce(red, tasks[i].info)
      /\ out' # out =>
           /\ pcRed = "report"
           /\ pcMain' = pcMain /\ tasks' = tasks /\ wg' = wg
      /\ (pcMain' # pcMain \/ wg' # wg \/ closed' # closed) =>
           (red' = red /\ fed' = fed /\ out' = out)
    ]_vars

C17_Witness ==
  /\ pcRed = "range" /\ Len(fed) = 2
  /\ red.totalTileSize = 2
  /\ Len(tasks) = 3
  /\ tasks[2].pc = "sent" /\ tasks[3].pc = "done" /\ tasks[1].pc = "send"

\* the positions <<k, j>> of the samples of layer n in the fed results
SamplesOf(n) ==
  { p \in UNION { { <<k, j>> : j \in 1..Len(fed[k].Layers) } : k \in FedIdx } :
      fed[p[1]].Layers[p[2]].Name = n }

\* the feature count of the sample at position p
CountAt(p) == fed[p[1]].Layers[p[2]].Count

\* the sum of the feature counts of the samples at the positions in P
RECURSIVE SumAt(_)
SumAt(P) ==
  IF P = {} THEN 0
  ELSE LET p == CHOOSE q \in P : TRUE
       IN CountAt(p) + SumAt(P \ {p})

\* C18: a layer name has an aggregate exactly if a fed result has a sample of
\* that name; the aggregate made from the first sample has min = max = total =
\* that sample's count and coverage 1, and the aggregate's min, max and total
\* are the minimum, maximum and sum of the counts of all fed samples of the
\* name.
C18_LayerAggregateIsFold ==
  /\ DOMAIN red.layer2CountMap = FedNames
  /\ \A n \in FedNames :
       LET P == SamplesOf(n)
           count == red.layer2CountMap[n]
       IN /\ \E p \in P : count.min = CountAt(p)
          /\ \A p \in P : count.min <= CountAt(p)
          /\ \E p \in P : count.max = CountAt(p)
          /\ \A p \in P : count.max >= CountAt(p)
          /\ count.total = SumAt(P)
          /\ Cardinality(P) = 1 =>
               \A p \in P : /\ count.min = CountAt(p)
                            /\ count.max = CountAt(p)
                            /\ count.total = CountAt(p)
                            /\ count.tile = 1

C18_Witness ==
  /\ Finalized /\ Len(fed) = 3
  /\ DOMAIN red.layer2CountMap = {road, roads, water}
  /\ Cardinality(SamplesOf(roads)) = 4
  /\ red.layer2CountMap[roads].min = 2
  /\ red.layer2CountMap[roads].max = 7
  /\ red.layer2CountMap[roads].total = 16
  /\ fed[1].Layers[1].Count = 7
  /\ Cardinality(SamplesOf(water)) = 1
  /\ red.layer2CountMap[water].tile = 1

\* the sum of the totals of the aggregates of the layer names in N
RECURSIVE SumTotals(_, _)
SumTotals(m, N) ==
  IF N = {} THEN 0
  ELSE LET n == CHOOSE k \in N : TRUE
       IN AddU64(m[n].total, SumTotals(m, N \ {n}))

\* C20: after every folded result the totals of all layer aggregates add up
\* to the global totalFeatures, and every layer aggregate has
\* min <= max <= total and a coverage of at least 1.
C20_LayerTotalsAddUp ==
  /\ SumTotals(red.layer2CountMap, DOMAIN red.layer2CountMap)
       = red.totalFeatures
  /\ \A n \in DOMAIN red.layer2CountMap :
       LET count == red.layer2CountMap[n]
       IN /\ count.min <= count.max
          /\ count.max <= count.total
          /\ count.tile >= 1

C20_Witness ==
  /\ Len(fed) = 2
  /\ Cardinality(DOMAIN red.layer2CountMap) = 3
  /\ red.totalFeatures = 16
  /\ red.layer2CountMap[roads].total = 11
  /\ red.layer2CountMap[roads].min < red.layer2CountMap[roads].max
  /\ red.layer2CountMap[roads].max < red.layer2CountMap[roads].total

\* main has returned after the whole pipeline ran to its end
Terminated ==
  /\ pcMain = "exit" /\ pcRed = "exit"
  /\ \A i \in 1..Len(tasks) : tasks[i].pc = "done"
  /\ Len(tasks) = tileCount /\ Len(fed) = tileCount
  /\ wg = 0 /\ closed /\ out.printed

\* C19: when every fetch succeeds and scheduling is fair, every run ends
\* with all results handed to the reducer, wg.Wait returned, ch closed, the
\* report printed, done signalled and main returned; and in every state
\* before that some goroutine can take a step.
C19_AlwaysTerminates ==
  /\ [](Terminated \/ ENABLED <<NextLive>>_vars)
  /\ <>Terminated

C19_Witness ==
  /\ Terminated
  /\ tileCount = 3
  /\ fed[1].X # tasks[1].x \/ fed[1].Y # tasks[1].y

====
